---- MODULE Spec2Model ----
(***************************************************************************)
(* Model of datafusion/core/src/execution/runtime_env.rs: the RuntimeConfig *)
(* builder and the RuntimeEnv constructor, together with the shared        *)
(* (Arc) ownership of the memory pool and the disk manager.                *)
(*                                                                         *)
(* Arc<T> values are modelled as ids into a heap (pools, dms) that keeps   *)
(* the strong count of every allocation.  The memory-pool and disk-manager *)
(* implementations live in other files of the repository; they are         *)
(* modelled from their documented contract.                                *)
(***************************************************************************)
EXTENDS Integers, Sequences, FiniteSets, TLC

(* ------------------------------ bounds --------------------------------- *)
\* number of memory pools alive at once
MaxPools == 2
\* number of disk managers alive at once
MaxDms == 2
\* largest reservation made against an unbounded pool
MaxUsed == 1

\* the caller's variables: two RuntimeConfig values and two RuntimeEnv
\* handles can be held at once
CfgSlots == {1, 2}
EnvSlots == {1, 2}
\* scenarios that build one config at a time use the first slot
OneCfg == {1}
PoolIds == 1..MaxPools
DmIds == 1..MaxDms

\* Option::None for an Option<Arc<..>>, and "no slot / no id"
None == 0

Dirs == {"/a", "/b"}
OsTmpDir == "/tmp"

(* ----------------------- DiskManagerConfig ----------------------------- *)
NewOs == [kind |-> "NewOs", dirs |-> <<>>]
new_specified(paths) == [kind |-> "NewSpecified", dirs |-> paths]

DirLists == {<<"/a">>, <<"/b">>, <<"/a", "/b">>}
DiskManagerConfigs == {NewOs} \cup {new_specified(l) : l \in DirLists}

(* ------------------------------ f64 ------------------------------------ *)
\* The f64 values used are NaN and dyadic rationals num/den of small
\* magnitude, on which IEEE-754 multiplication is exact.
NaN == [nan |-> TRUE, num |-> 0, den |-> 1]
F64(n, d) == [nan |-> FALSE, num |-> n, den |-> d]

\* `max_memory as f64`
UsizeAsF64(n) == F64(n, 1)

\* `a * b` on f64
F64Mul(a, b) ==
    IF a.nan \/ b.nan THEN NaN ELSE F64(a.num * b.num, a.den * b.den)

\* `x as usize`: truncates toward zero and saturates; NaN and negative
\* values become 0.
F64AsUsize(x) ==
    IF x.nan THEN 0
    ELSE IF x.num < 0 THEN 0
    ELSE x.num \div x.den

\* floor of a rational (the mathematical floor; \div rounds toward minus
\* infinity)
Floor(x) == x.num \div x.den

MaxMemories == {0, 1000}
Fractions == {F64(-1, 16), F64(1, 2), F64(1, 1), F64(3, 2), NaN}

(* --------------------------- RuntimeConfig ----------------------------- *)
\* #[derive(Default)]: DiskManagerConfig::default() and Option::None
RuntimeConfigDefault == [disk_manager |-> NewOs, memory_pool |-> None]

RuntimeConfigNew == RuntimeConfigDefault

\* mutant: the config is rebuilt from the default, losing the pool override
with_disk_manager_FromDefault(self, disk_manager) ==
    [RuntimeConfigDefault EXCEPT !.disk_manager = disk_manager]

with_disk_manager(self, disk_manager) ==
    [self EXCEPT !.disk_manager = disk_manager]

\* mutant: an override already present is kept (first write wins)
with_memory_pool_KeepFirst(self, memory_pool) ==
    IF self.memory_pool = None THEN [self EXCEPT !.memory_pool = memory_pool]
    ELSE self

with_memory_pool(self, memory_pool) ==
    [self EXCEPT !.memory_pool = memory_pool]

\* mutant: the fraction is not applied
pool_size_NoFraction(max_memory, memory_fraction) ==
    F64AsUsize(UsizeAsF64(max_memory))

\* the size handed to GreedyMemoryPool::new
pool_size(max_memory, memory_fraction) ==
    F64AsUsize(F64Mul(UsizeAsF64(max_memory), memory_fraction))

\* `fresh` is the Arc::new(GreedyMemoryPool::new(pool_size)) allocation
with_memory_limit(self, fresh) == with_memory_pool(self, fresh)

\* mutant: the OS temporary directory is allowed next to the path
with_temp_file_path_AlsoOsTmp(self, path) ==
    with_disk_manager(self, new_specified(<<path, OsTmpDir>>))

with_temp_file_path(self, path) ==
    with_disk_manager(self, new_specified(<<path>>))

(* ------------------------------ state ---------------------------------- *)
VARIABLES
    cfg,      \* RuntimeConfig values held by the caller, by slot
    cfgLog,   \* history: the most recent builder call of each family, per config
    env,      \* RuntimeEnv handles held by the caller, by slot
    built,    \* history: for each handle, the config and the new() call it stems from
    pools,    \* heap of Arc<dyn MemoryPool> allocations
    dms,      \* heap of Arc<DiskManager> allocations
    files,    \* temporary files that exist, [dm, dir]
    ext,      \* pools the caller holds an Arc to outside any config / env
    extDm,    \* disk managers the caller holds an Arc to outside any env
    last      \* the most recent call, when it has a result or a numeric argument

vars == <<cfg, cfgLog, env, built, pools, dms, files, ext, extDm, last>>

\* heap cells that hold no allocation
NoPool == [kind |-> "free", pool_size |-> 0, used |-> 0, strong |-> 0]
NoDm == [live |-> FALSE, mode |-> NewOs, strong |-> 0]

Zero == F64(0, 1)
\* a call: its name and result, the config and handle slots it works on, its
\* numeric arguments, whether the DiskManager::try_new it made succeeded, and
\* (for a mutator) whether an earlier call of its family had been made
Call(op, res, c, e, n, x) ==
    [op |-> op, res |-> res, cfg |-> c, env |-> e, n |-> n, x |-> x,
     dm_ok |-> TRUE, again |-> FALSE]

\* `last` after a call that has no result and no numeric argument
Other == Call("other", "Ok", None, None, 0, Zero)

\* a function without / with one more slot
Without(f, i) == [j \in DOMAIN f \ {i} |-> f[j]]
With(f, i, v) == [j \in DOMAIN f \cup {i} |-> IF j = i THEN v ELSE f[j]]

Min(S) == CHOOSE m \in S : \A n \in S : m <= n

\* the slot a new value is bound to: the first one not in use (None if all are)
FreeSlot(slots, f) ==
    IF slots \subseteq DOMAIN f THEN None ELSE Min(slots \ DOMAIN f)

(* ------------------------------- Arc ----------------------------------- *)

\* where Arc::new can place an allocation: any cell not in use
FreshPools(ps) == {p \in PoolIds : ps[p].kind = "free"}
FreshDms(ds) == {d \in DmIds : ~ds[d].live}

\* Arc::new(pool)
ArcNewPool(ps, p, kind, size) ==
    [ps EXCEPT ![p] = [kind |-> kind, pool_size |-> size, used |-> 0,
                       strong |-> 1]]

\* Arc::clone / drop of an Option<Arc<dyn MemoryPool>>; dropping the last
\* reference frees the pool
ArcClonePool(ps, p) ==
    IF p = None THEN ps ELSE [ps EXCEPT ![p].strong = @ + 1]

ArcDropPool(ps, p) ==
    IF p = None THEN ps
    ELSE IF ps[p].strong = 1 THEN [ps EXCEPT ![p] = NoPool]
    ELSE [ps EXCEPT ![p].strong = @ - 1]

\* Arc::clone / drop of an Arc<DiskManager>; dropping the last reference
\* drops the DiskManager, which cleans up its temporary files
ArcCloneDm(ds, d) == [ds EXCEPT ![d].strong = @ + 1]

\* mutant: the first drop tears the disk manager down
ArcDropDm_FirstDrop(ds, d) == [ds EXCEPT ![d] = NoDm]

ArcDropDm(ds, d) ==
    IF ds[d].strong = 1 THEN [ds EXCEPT ![d] = NoDm]
    ELSE [ds EXCEPT ![d].strong = @ - 1]

\* Drop for DiskManager: the files of a manager that is gone are removed
Cleanup(fs, ds) == {f \in fs : ds[f.dm].live}

(* ------------------------- DiskManager, pools -------------------------- *)
\* DiskManager::try_new(config) when it succeeds: Arc::new(DiskManager{..})
DiskManagerNew(ds, d, config) ==
    [ds EXCEPT ![d] = [live |-> TRUE, mode |-> config, strong |-> 1]]

\* the directories a disk manager may create temporary files in
LocalDirs(mode) ==
    IF mode.kind = "NewOs" THEN {OsTmpDir}
    ELSE {mode.dirs[k] : k \in 1..Len(mode.dirs)}

\* MemoryPool::try_grow: whether `additional` more bytes are granted
Grants(pool, additional) ==
    pool.kind = "Unbounded" \/ pool.used + additional <= pool.pool_size

(* ----------------------------- RuntimeEnv ------------------------------ *)
\* mutant: the override is ignored, a default pool is always built
unwrap_or_else_AlwaysDefault(memory_pool, fresh) == fresh

\* memory_pool.unwrap_or_else(|| Arc::new(UnboundedMemoryPool::default()))
unwrap_or_else(memory_pool, fresh) ==
    IF memory_pool = None THEN fresh ELSE memory_pool

\* mutant: the error of DiskManager::try_new is not propagated
RuntimeEnvNew_NoPropagation(config, dm, fresh) ==
    [ok |-> TRUE, memory_pool |-> unwrap_or_else(config.memory_pool, fresh),
     disk_manager |-> dm]

\* RuntimeEnv::new, given the outcome of DiskManager::try_new(disk_manager)
\* (dm = None when it failed, else the new Arc<DiskManager>) and the
\* allocation a default pool would get.
RuntimeEnvNew(config, dm, fresh) ==
    LET memory_pool == unwrap_or_else(config.memory_pool, fresh) IN
    IF dm = None
        THEN [ok |-> FALSE, memory_pool |-> memory_pool, disk_manager |-> None]
        ELSE [ok |-> TRUE, memory_pool |-> memory_pool, disk_manager |-> dm]

\* mutant: the error is swallowed instead of panicking
unwrap_Swallow(r) == "Ok"

\* Result::unwrap in RuntimeEnv::default: what the caller gets for outcome r
unwrap(r) == IF r = "Err" THEN "Panic" ELSE r

\* mutant: the clone refers to a pool of its own
RuntimeEnvClone_OwnPool(self) ==
    [memory_pool |-> (self.memory_pool % MaxPools) + 1,
     disk_manager |-> self.disk_manager]

\* #[derive(Clone)] on RuntimeEnv: Arc::clone of both fields
RuntimeEnvClone(self) ==
    [memory_pool |-> self.memory_pool, disk_manager |-> self.disk_manager]

\* mutant: the clone loses the pool override
RuntimeConfigClone_NoOverride(self) ==
    [disk_manager |-> self.disk_manager, memory_pool |-> None]

\* #[derive(Clone)] on RuntimeConfig
RuntimeConfigClone(self) ==
    [disk_manager |-> self.disk_manager, memory_pool |-> self.memory_pool]

(* ------------------------------- Init ---------------------------------- *)
Init ==
    /\ cfg = <<>>
    /\ cfgLog = <<>>
    /\ env = <<>>
    /\ built = <<>>
    /\ pools = [p \in PoolIds |-> NoPool]
    /\ dms = [d \in DmIds |-> NoDm]
    /\ files = {}
    /\ ext = {}
    /\ extDm = {}
    /\ last = Other

(* ------------------------ RuntimeConfig actions ------------------------ *)
\* one builder call: its name and its argument (a mode, a path, or the pool
\* it installs)
LogEntry(op, dm, path, pool) == [op |-> op, dm |-> dm, path |-> path, pool |-> pool]
NoCall == LogEntry("none", NewOs, "", None)
\* the history of a config no mutator was applied to
NoCalls == [dm |-> NoCall, pool |-> NoCall]

\* RuntimeConfig::new()
ConfigNew(i) ==
    /\ i = FreeSlot(CfgSlots, cfg)
    /\ cfg' = With(cfg, i, RuntimeConfigNew)
    /\ cfgLog' = With(cfgLog, i, NoCalls)
    /\ last' = Other
    /\ UNCHANGED <<env, built, pools, dms, files, ext, extDm>>

\* config.clone()
ConfigClone(i, j) ==
    /\ i \in DOMAIN cfg
    /\ j = FreeSlot(CfgSlots, cfg)
    /\ cfg' = With(cfg, j, RuntimeConfigClone(cfg[i]))
    /\ cfgLog' = With(cfgLog, j, cfgLog[i])
    /\ pools' = ArcClonePool(pools, cfg'[j].memory_pool)
    /\ last' = Other
    /\ UNCHANGED <<env, built, dms, files, ext, extDm>>

\* drop(config)
ConfigDrop(i) ==
    /\ i \in DOMAIN cfg
    /\ cfg' = Without(cfg, i)
    /\ cfgLog' = Without(cfgLog, i)
    /\ pools' = ArcDropPool(pools, cfg[i].memory_pool)
    /\ last' = Other
    /\ UNCHANGED <<env, built, dms, files, ext, extDm>>

\* config = config.with_disk_manager(disk_manager)
WithDiskManager(i, disk_manager) ==
    /\ i \in DOMAIN cfg
    /\ cfg' = [cfg EXCEPT ![i] = with_disk_manager(@, disk_manager)]
    /\ cfgLog' = [cfgLog EXCEPT ![i].dm =
                    LogEntry("with_disk_manager", disk_manager, "", None)]
    /\ last' = [Call("with_disk_manager", "Ok", i, None, 0, Zero)
                    EXCEPT !.again = (cfgLog[i].dm # NoCall)]
    /\ UNCHANGED <<env, built, pools, dms, files, ext, extDm>>

\* config = config.with_temp_file_path(path)
WithTempFilePath(i, path) ==
    /\ i \in DOMAIN cfg
    /\ cfg' = [cfg EXCEPT ![i] = with_temp_file_path(@, path)]
    /\ cfgLog' = [cfgLog EXCEPT ![i].dm =
                    LogEntry("with_temp_file_path", NewOs, path, None)]
    /\ last' = [Call("with_temp_file_path", "Ok", i, None, 0, Zero)
                    EXCEPT !.again = (cfgLog[i].dm # NoCall)]
    /\ UNCHANGED <<env, built, pools, dms, files, ext, extDm>>

\* config = config.with_memory_pool(Arc::clone(&pool)) for a pool the
\* caller holds; the assignment drops the override it replaces
WithMemoryPool(i, p) ==
    /\ i \in DOMAIN cfg
    /\ p \in ext
    /\ cfg' = [cfg EXCEPT ![i] = with_memory_pool(@, p)]
    /\ cfgLog' = [cfgLog EXCEPT ![i].pool =
                    LogEntry("with_memory_pool", NewOs, "", p)]
    /\ pools' = ArcDropPool(ArcClonePool(pools, p), cfg[i].memory_pool)
    /\ last' = [Call("with_memory_pool", "Ok", i, None, 0, Zero)
                    EXCEPT !.again = (cfgLog[i].pool # NoCall)]
    /\ UNCHANGED <<env, built, dms, files, ext, extDm>>

\* config = config.with_memory_limit(max_memory, memory_fraction)
WithMemoryLimit(i, max_memory, memory_fraction) ==
    /\ i \in DOMAIN cfg
    /\ FreshPools(pools) # {}
    /\ LET fresh == Min(FreshPools(pools))
           size == pool_size(max_memory, memory_fraction)
       IN  /\ cfg' = [cfg EXCEPT ![i] = with_memory_limit(@, fresh)]
           /\ cfgLog' = [cfgLog EXCEPT ![i].pool =
                           LogEntry("with_memory_limit", NewOs, "", fresh)]
           /\ pools' = ArcDropPool(ArcNewPool(pools, fresh, "Greedy", size),
                                   cfg[i].memory_pool)
    /\ last' = [Call("with_memory_limit", "Ok", i, None, max_memory, memory_fraction)
                    EXCEPT !.again = (cfgLog[i].pool # NoCall)]
    /\ UNCHANGED <<env, built, dms, files, ext, extDm>>

(* -------------------------- RuntimeEnv actions -------------------------- *)
\* The body of RuntimeEnv::new(config) for a config with builder history
\* `log`, called as `op` with its result going to handle slot h.  dm_ok is
\* the outcome of DiskManager::try_new; onErr is what the caller of `op`
\* gets when new() returns Err.
NewCall(op, onErr, config, log, i, h, dm_ok) ==
    LET fresh == IF FreshPools(pools) = {} THEN None ELSE Min(FreshPools(pools))
        d == IF dm_ok /\ FreshDms(dms) # {} THEN Min(FreshDms(dms)) ELSE None
        \* history: a number for this call that no live handle carries
        build == Min(EnvSlots \ {built[k].build : k \in DOMAIN built})
        r == RuntimeEnvNew(config, d, fresh)
        \* line 58-59 runs before DiskManager::try_new
        resolved == IF config.memory_pool = None
                        THEN ArcNewPool(pools, fresh, "Unbounded", 0)
                        ELSE pools
    IN  /\ config.memory_pool = None => FreshPools(pools) # {}
        /\ dm_ok => FreshDms(dms) # {}
        /\ IF r.ok
             THEN /\ env' = With(env, h, [memory_pool |-> r.memory_pool,
                                           disk_manager |-> r.disk_manager])
                  /\ built' = With(built, h, [cfg |-> config, log |-> log,
                                               build |-> build])
                  /\ pools' = resolved
                  /\ dms' = DiskManagerNew(dms, r.disk_manager, config.disk_manager)
                  /\ last' = [Call(op, "Ok", i, h, 0, Zero) EXCEPT !.dm_ok = dm_ok]
             ELSE \* `?` returns early: the resolved pool is dropped
                  /\ pools' = ArcDropPool(resolved, r.memory_pool)
                  /\ last' = [Call(op, onErr, i, None, 0, Zero) EXCEPT !.dm_ok = dm_ok]
                  /\ UNCHANGED <<env, built, dms>>

\* let env = RuntimeEnv::new(config), which consumes the config
EnvNew(i, h, dm_ok) ==
    /\ i \in DOMAIN cfg
    /\ h = FreeSlot(EnvSlots, env)
    /\ NewCall("RuntimeEnv::new", "Err", cfg[i], cfgLog[i], i, h, dm_ok)
    /\ cfg' = Without(cfg, i)
    /\ cfgLog' = Without(cfgLog, i)
    /\ UNCHANGED <<files, ext, extDm>>

\* let env = RuntimeEnv::default(): new(RuntimeConfig::new()).unwrap()
EnvDefault(h, dm_ok) ==
    /\ h = FreeSlot(EnvSlots, env)
    /\ NewCall("RuntimeEnv::default", unwrap("Err"), RuntimeConfigNew, NoCalls, None, h, dm_ok)
    /\ UNCHANGED <<cfg, cfgLog, files, ext, extDm>>

\* let k = env.clone()
EnvClone(h, k) ==
    /\ h \in DOMAIN env
    /\ k = FreeSlot(EnvSlots, env)
    /\ env' = With(env, k, RuntimeEnvClone(env[h]))
    /\ built' = With(built, k, built[h])
    /\ pools' = ArcClonePool(pools, env[h].memory_pool)
    /\ dms' = ArcCloneDm(dms, env[h].disk_manager)
    /\ last' = Other
    /\ UNCHANGED <<cfg, cfgLog, files, ext, extDm>>

\* drop(env)
EnvDrop(h) ==
    /\ h \in DOMAIN env
    /\ env' = Without(env, h)
    /\ built' = Without(built, h)
    /\ pools' = ArcDropPool(pools, env[h].memory_pool)
    /\ dms' = ArcDropDm(dms, env[h].disk_manager)
    /\ files' = Cleanup(files, dms')
    /\ last' = Other
    /\ UNCHANGED <<cfg, cfgLog, ext, extDm>>

(* ------------------- the caller's own Arc references ------------------- *)
ExtPoolSizes == {1}

\* let pool: Arc<dyn MemoryPool> = Arc::new(..), to hand to with_memory_pool
PoolCreate(kind, size) ==
    /\ FreshPools(pools) # {}
    /\ LET fresh == Min(FreshPools(pools)) IN
        /\ pools' = ArcNewPool(pools, fresh, kind, size)
        /\ ext' = ext \cup {fresh}
    /\ last' = Other
    /\ UNCHANGED <<cfg, cfgLog, env, built, dms, files, extDm>>

\* drop(pool)
ExtDrop(p) ==
    /\ p \in ext
    /\ ext' = ext \ {p}
    /\ pools' = ArcDropPool(pools, p)
    /\ last' = Other
    /\ UNCHANGED <<cfg, cfgLog, env, built, dms, files, extDm>>

\* let dm = Arc::clone(&env.disk_manager)   (the field is pub)
TakeDiskManager(h) ==
    /\ h \in DOMAIN env
    /\ env[h].disk_manager \notin extDm
    /\ extDm' = extDm \cup {env[h].disk_manager}
    /\ dms' = ArcCloneDm(dms, env[h].disk_manager)
    /\ last' = Other
    /\ UNCHANGED <<cfg, cfgLog, env, built, pools, files, ext>>

\* drop(dm)
ExtDmDrop(d) ==
    /\ d \in extDm
    /\ extDm' = extDm \ {d}
    /\ dms' = ArcDropDm(dms, d)
    /\ files' = Cleanup(files, dms')
    /\ last' = Other
    /\ UNCHANGED <<cfg, cfgLog, env, built, pools, ext>>

(* ------------------ use of the shared resources ------------------------ *)
\* env.memory_pool.try_grow(.., additional)
TryGrow(h, additional) ==
    /\ h \in DOMAIN env
    /\ LET p == env[h].memory_pool IN
        IF Grants(pools[p], additional)
            THEN /\ pools[p].used + additional <= MaxUsed
                 /\ pools' = [pools EXCEPT ![p].used = @ + additional]
                 /\ last' = Call("try_grow", "Ok", None, h, additional, Zero)
            ELSE /\ pools' = pools
                 /\ last' = Call("try_grow", "Err", None, h, additional, Zero)
    /\ UNCHANGED <<cfg, cfgLog, env, built, dms, files, ext, extDm>>

\* env.memory_pool.shrink(.., 1)
Shrink(h) ==
    /\ h \in DOMAIN env
    /\ pools[env[h].memory_pool].used > 0
    /\ pools' = [pools EXCEPT ![env[h].memory_pool].used = @ - 1]
    /\ last' = Other
    /\ UNCHANGED <<cfg, cfgLog, env, built, dms, files, ext, extDm>>

\* env.disk_manager.create_tmp_file(..)
CreateTmpFile(h, dir) ==
    /\ h \in DOMAIN env
    /\ dir \in LocalDirs(dms[env[h].disk_manager].mode)
    /\ files' = files \cup {[dm |-> env[h].disk_manager, dir |-> dir]}
    /\ last' = Other
    /\ UNCHANGED <<cfg, cfgLog, env, built, pools, dms, ext, extDm>>

(* ------------------------------- Next ---------------------------------- *)
\* the builder: every mutator on every input, clone and drop
NextBuilder ==
    \/ \E i \in CfgSlots : ConfigNew(i)
    \/ \E i, j \in CfgSlots : ConfigClone(i, j)
    \/ \E i \in CfgSlots : ConfigDrop(i)
    \/ \E i \in CfgSlots, m \in DiskManagerConfigs : WithDiskManager(i, m)
    \/ \E i \in CfgSlots, path \in Dirs : WithTempFilePath(i, path)
    \/ \E i \in CfgSlots, p \in PoolIds : WithMemoryPool(i, p)
    \/ \E i \in CfgSlots, f \in {F64(1, 2), F64(1, 1)} : WithMemoryLimit(i, 1000, f)
    \/ \E k \in {"Unbounded", "Greedy"}, n \in ExtPoolSizes : PoolCreate(k, n)
    \/ \E p \in PoolIds : ExtDrop(p)

\* with_memory_limit on every input, then new() and allocation
NextLimit ==
    \/ \E i \in CfgSlots : ConfigNew(i)
    \/ \E i \in CfgSlots, m \in MaxMemories, f \in Fractions : WithMemoryLimit(i, m, f)
    \/ \E i \in CfgSlots, h \in EnvSlots, ok \in BOOLEAN : EnvNew(i, h, ok)
    \/ \E h \in EnvSlots, n \in 1..MaxUsed : TryGrow(h, n)
    \/ \E h \in EnvSlots : Shrink(h)
    \/ \E h \in EnvSlots : EnvDrop(h)

\* construction: one config at a time built by the mutators, then new(),
\* and default()
Next ==
    \/ \E i \in OneCfg : ConfigNew(i)
    \/ \E i \in OneCfg : ConfigDrop(i)
    \/ \E i \in OneCfg, m \in {NewOs, new_specified(<<"/a">>)} : WithDiskManager(i, m)
    \/ \E i \in OneCfg : WithTempFilePath(i, "/b")
    \/ \E i \in OneCfg, p \in PoolIds : WithMemoryPool(i, p)
    \/ \E i \in OneCfg : WithMemoryLimit(i, 1, F64(1, 1))
    \/ \E n \in ExtPoolSizes : PoolCreate("Greedy", n)
    \/ \E p \in PoolIds : ExtDrop(p)
    \/ \E i \in OneCfg, h \in EnvSlots, ok \in BOOLEAN : EnvNew(i, h, ok)
    \/ \E h \in EnvSlots, ok \in BOOLEAN : EnvDefault(h, ok)
    \/ \E h \in EnvSlots : EnvDrop(h)

\* cloned configs: several environments built from one configuration
NextClone ==
    \/ \E i \in CfgSlots : ConfigNew(i)
    \/ \E i, j \in CfgSlots : ConfigClone(i, j)
    \/ \E i \in CfgSlots : ConfigDrop(i)
    \/ \E i \in CfgSlots, p \in PoolIds : WithMemoryPool(i, p)
    \/ \E i \in CfgSlots : WithMemoryLimit(i, 1, F64(1, 1))
    \/ \E n \in ExtPoolSizes : PoolCreate("Greedy", n)
    \/ \E p \in PoolIds : ExtDrop(p)
    \/ \E i \in CfgSlots, h \in EnvSlots, ok \in BOOLEAN : EnvNew(i, h, ok)
    \/ \E h \in EnvSlots : EnvDrop(h)
    \/ \E h \in EnvSlots, n \in 1..MaxUsed : TryGrow(h, n)
    \/ \E h \in EnvSlots : Shrink(h)

\* sharing: handles cloned from a RuntimeEnv allocate and are released
NextShare ==
    \/ \E i \in OneCfg : ConfigNew(i)
    \/ \E i \in OneCfg : WithMemoryLimit(i, 1, F64(1, 1))
    \/ \E i \in OneCfg, h \in EnvSlots, ok \in BOOLEAN : EnvNew(i, h, ok)
    \/ \E h \in EnvSlots, ok \in BOOLEAN : EnvDefault(h, ok)
    \/ \E h, k \in EnvSlots : EnvClone(h, k)
    \/ \E h \in EnvSlots : EnvDrop(h)
    \/ \E h \in EnvSlots, n \in 1..MaxUsed : TryGrow(h, n)
    \/ \E h \in EnvSlots : Shrink(h)

\* temporary files: disk managers of every mode, shared and used
NextFiles ==
    \/ \E i \in OneCfg : ConfigNew(i)
    \/ \E i \in OneCfg, m \in DiskManagerConfigs : WithDiskManager(i, m)
    \/ \E i \in OneCfg, path \in Dirs : WithTempFilePath(i, path)
    \/ \E i \in OneCfg, h \in EnvSlots, ok \in BOOLEAN : EnvNew(i, h, ok)
    \/ \E h, k \in EnvSlots : EnvClone(h, k)
    \/ \E h \in EnvSlots : EnvDrop(h)
    \/ \E h \in EnvSlots, dir \in Dirs \cup {OsTmpDir} : CreateTmpFile(h, dir)

\* teardown: every way a reference to a disk manager is taken and released
NextTeardown ==
    \/ \E i \in OneCfg : ConfigNew(i)
    \/ \E i \in OneCfg : WithTempFilePath(i, "/a")
    \/ \E i \in OneCfg, h \in EnvSlots, ok \in BOOLEAN : EnvNew(i, h, ok)
    \/ \E h \in EnvSlots, ok \in BOOLEAN : EnvDefault(h, ok)
    \/ \E h, k \in EnvSlots : EnvClone(h, k)
    \/ \E h \in EnvSlots : EnvDrop(h)
    \/ \E h \in EnvSlots : TakeDiskManager(h)
    \/ \E d \in DmIds : ExtDmDrop(d)
    \/ \E h \in EnvSlots, dir \in Dirs \cup {OsTmpDir} : CreateTmpFile(h, dir)

Spec == Init /\ [][Next]_vars
SpecBuilder == Init /\ [][NextBuilder]_vars
SpecLimit == Init /\ [][NextLimit]_vars
SpecClone == Init /\ [][NextClone]_vars
SpecShare == Init /\ [][NextShare]_vars
SpecFiles == Init /\ [][NextFiles]_vars
SpecTeardown == Init /\ [][NextTeardown]_vars

TypeOK ==
    /\ DOMAIN cfg \subseteq CfgSlots
    /\ DOMAIN cfgLog = DOMAIN cfg
    /\ DOMAIN env \subseteq EnvSlots
    /\ DOMAIN built = DOMAIN env
    /\ \A i \in DOMAIN cfg :
        /\ cfg[i].disk_manager \in DiskManagerConfigs
        /\ cfg[i].memory_pool \in PoolIds \cup {None}
    /\ \A h \in DOMAIN env :
        /\ env[h].memory_pool \in PoolIds
        /\ env[h].disk_manager \in DmIds
    /\ \A p \in PoolIds : pools[p].strong >= 0 /\ pools[p].used >= 0

(* ----------------------------- holders --------------------------------- *)
\* the number of Arc references to pool p / disk manager d held in the
\* configs c, the handles e and the caller's own references x
PoolHolders(c, e, x, p) ==
    Cardinality({i \in DOMAIN c : c[i].memory_pool = p})
    + Cardinality({h \in DOMAIN e : e[h].memory_pool = p})
    + (IF p \in x THEN 1 ELSE 0)

DmHolders(e, x, d) ==
    Cardinality({h \in DOMAIN e : e[h].disk_manager = d})
    + (IF d \in x THEN 1 ELSE 0)

\* a pool / disk manager as Arc::new leaves it
FreshUnbounded == [kind |-> "Unbounded", pool_size |-> 0, used |-> 0, strong |-> 1]
FreshDm(mode) == [live |-> TRUE, mode |-> mode, strong |-> 1]

NewOps == {"RuntimeEnv::new", "RuntimeEnv::default"}

(* ------------------------------ C1 ------------------------------------- *)
\* C1: the memory pool of a RuntimeEnv is the override pool of the config it
\* was built from (the same allocation), if the config has one, and otherwise
\* an unbounded pool constructed by that call to new() (nothing else refers
\* to it when new() returns); an env built from RuntimeConfig::new() has an
\* unbounded pool and an OS-temp-directory disk manager.
C1_PoolResolution ==
    \A h \in DOMAIN env :
        LET c == built[h].cfg
            mp == env[h].memory_pool
        IN  /\ c.memory_pool # None => mp = c.memory_pool
            /\ c.memory_pool = None =>
                /\ mp \in PoolIds
                /\ pools[mp].kind = "Unbounded"
                /\ mp \notin ext
                /\ \A i \in DOMAIN cfg : cfg[i].memory_pool # mp
            /\ (c.memory_pool = None /\ last.op \in NewOps /\ last.res = "Ok"
                    /\ last.env = h)
                => pools[mp] = FreshUnbounded
            /\ c = RuntimeConfigNew =>
                /\ pools[mp].kind = "Unbounded"
                /\ env[h].disk_manager \in DmIds
                /\ dms[env[h].disk_manager].mode = NewOs

\* new() has just built an env from a config with an override, while an env
\* built from a default config is held
C1_Witness ==
    /\ last.op = "RuntimeEnv::new"
    /\ last.res = "Ok"
    /\ built[last.env].cfg.memory_pool # None
    /\ env[last.env].memory_pool = built[last.env].cfg.memory_pool
    /\ \E k \in DOMAIN env : built[k].cfg = RuntimeConfigNew

(* ------------------------------ C2 ------------------------------------- *)
\* what a call to new() that consumes config slot i leaves behind
C2_Step ==
    LET i == last'.cfg
        h == last'.env
    IN  /\ (last'.res = "Err") <=> ~last'.dm_ok
        /\ last'.res \in {"Ok", "Err"}
        /\ i \notin DOMAIN cfg'
        /\ last'.res = "Err" =>
            \* nothing is produced, and no reference to a pool is left over
            /\ env' = env
            /\ dms' = dms
            /\ \A p \in PoolIds :
                /\ pools'[p].strong = PoolHolders(cfg', env', ext', p)
                /\ pools'[p].kind = "free" <=> pools'[p].strong = 0
            /\ cfg[i].memory_pool = None => pools' = pools
        /\ last'.res = "Ok" =>
            /\ DOMAIN env' = DOMAIN env \cup {h}
            /\ h \notin DOMAIN env
            /\ env'[h].memory_pool \in PoolIds
            /\ pools'[env'[h].memory_pool].kind # "free"
            /\ env'[h].disk_manager \in DmIds
            /\ dms'[env'[h].disk_manager].live

\* C2: RuntimeEnv::new(config) returns an error if and only if the
\* disk-manager construction fails; when it fails no RuntimeEnv and no disk
\* manager exists afterwards and the resolved memory pool is dropped; when it
\* succeeds the new env has a live memory pool and a live disk manager.
C2_AllOrNothing == [][last'.op = "RuntimeEnv::new" => C2_Step]_vars

\* new() has just failed on a config carrying an override, with an env held
C2_Witness ==
    /\ last.op = "RuntimeEnv::new"
    /\ last.res = "Err"
    /\ ~last.dm_ok
    /\ DOMAIN env # {}
    /\ ext # {}

(* ------------------------------ C6 ------------------------------------- *)
\* handle h is new and refers to an unbounded pool and an OS-temp disk
\* manager that the step has constructed
C6_DefaultEnvBuilt(h) ==
    /\ h \notin DOMAIN env
    /\ h \in DOMAIN env'
    /\ env'[h].memory_pool \in PoolIds
    /\ pools[env'[h].memory_pool].kind = "free"
    /\ pools'[env'[h].memory_pool] = FreshUnbounded
    /\ env'[h].disk_manager \in DmIds
    /\ ~dms[env'[h].disk_manager].live
    /\ dms'[env'[h].disk_manager] = FreshDm(NewOs)
    /\ \A k \in DOMAIN env : env'[k] = env[k]

C6_Step ==
    /\ last'.op = "RuntimeEnv::default" =>
        /\ last'.res = (IF last'.dm_ok THEN "Ok" ELSE "Panic")
        /\ last'.res = "Ok" => C6_DefaultEnvBuilt(last'.env)
        /\ last'.res = "Panic" => env' = env /\ pools' = pools /\ dms' = dms
        /\ cfg' = cfg
    /\ (last'.op = "RuntimeEnv::new" /\ last'.res = "Ok"
            /\ cfg[last'.cfg] = RuntimeConfigNew)
        => C6_DefaultEnvBuilt(last'.env)

\* C6: default() succeeds exactly when the default disk-manager construction
\* does, and then yields what new(RuntimeConfig::new()) yields: a new env with
\* a newly constructed unbounded pool and OS-temp disk manager; when the
\* construction fails default() panics and leaves no env, pool or manager.
C6_DefaultIsNew == [][C6_Step]_vars

\* default() has just panicked, while an env built from a default config is held
C6_Witness ==
    /\ last.op = "RuntimeEnv::default"
    /\ last.res = "Panic"
    /\ \E k \in DOMAIN env : built[k].cfg = RuntimeConfigNew

(* ------------------------------ C3 ------------------------------------- *)
\* the pool that the most recent call, a with_memory_limit, has installed
C3_Installed == pools[cfg[last.cfg].memory_pool]

\* C3 as stated: for every max_bytes and fraction (NaN aside, which has no
\* floor) with_memory_limit installs a greedy pool whose ceiling is
\* floor(max_bytes * fraction).
C3_CeilingIsFloor ==
    (last.op = "with_memory_limit" /\ ~last.x.nan) =>
        /\ C3_Installed.kind = "Greedy"
        /\ C3_Installed.pool_size = Floor(F64Mul(UsizeAsF64(last.n), last.x))

\* C3 amended: with_memory_limit installs a greedy pool whose ceiling is the
\* product max_bytes * fraction truncated toward zero, and 0 when the product
\* is negative or NaN (so floor(max_bytes * fraction) whenever the product is
\* not negative); (1000, 0.5) gives 500, (0, 1.0) gives 0, and a pool of
\* ceiling 0 rejects every positive allocation request.
C3_CeilingIsSaturatedTruncation ==
    /\ last.op = "with_memory_limit" =>
        /\ C3_Installed.kind = "Greedy"
        /\ C3_Installed.used = 0
        /\ C3_Installed.pool_size =
            (IF last.x.nan \/ last.n * last.x.num < 0 THEN 0
             ELSE (last.n * last.x.num) \div last.x.den)
        /\ (last.n = 1000 /\ last.x = F64(1, 2)) => C3_Installed.pool_size = 500
        /\ (last.n = 0 /\ last.x = F64(1, 1)) => C3_Installed.pool_size = 0
    /\ (last.op = "try_grow" /\ pools[env[last.env].memory_pool].kind = "Greedy"
            /\ pools[env[last.env].memory_pool].pool_size = 0)
        => last.res = "Err" /\ pools[env[last.env].memory_pool].used = 0

\* with_memory_limit(1000, -1/16) has just installed a pool of ceiling 0
C3_Witness ==
    /\ last.op = "with_memory_limit"
    /\ last.n = 1000
    /\ last.x = F64(-1, 16)
    /\ C3_Installed.kind = "Greedy"
    /\ C3_Installed.pool_size = 0

(* ------------------------------ C4 ------------------------------------- *)
\* the disk-manager mode a call of the disk-manager family asks for
ModeOf(call) ==
    IF call.op = "none" THEN [kind |-> "NewOs", dirs |-> <<>>]
    ELSE IF call.op = "with_temp_file_path"
        THEN [kind |-> "NewSpecified", dirs |-> <<call.path>>]
    ELSE call.dm

\* C4: the disk-manager mode of a config is the one asked for by the most
\* recent with_disk_manager / with_temp_file_path call on it (OS temp if
\* none), its pool override is the pool installed by the most recent
\* with_memory_pool / with_memory_limit call (absent if none), and an env
\* built from it has that mode and that pool.
C4_LastWriteWins ==
    /\ \A i \in DOMAIN cfg :
        /\ cfg[i].disk_manager = ModeOf(cfgLog[i].dm)
        /\ cfg[i].memory_pool = cfgLog[i].pool.pool
    /\ \A h \in DOMAIN env :
        /\ dms[env[h].disk_manager].mode = ModeOf(built[h].log.dm)
        /\ built[h].log.pool # NoCall => env[h].memory_pool = built[h].log.pool.pool

\* a second call of the pool family has just replaced the first one's pool,
\* on a config whose disk-manager mode was set more than once as well
C4_Witness ==
    /\ last.op = "with_memory_pool"
    /\ last.again
    /\ cfg[last.cfg].memory_pool \in ext
    /\ cfgLog[last.cfg].dm.op = "with_temp_file_path"

(* ------------------------------ C8 ------------------------------------- *)
DmFamily == {"with_disk_manager", "with_temp_file_path"}
PoolFamily == {"with_memory_pool", "with_memory_limit"}

C8_Step ==
    LET i == last'.cfg IN
    /\ last'.op \in DmFamily \cup PoolFamily =>
        /\ last'.res = "Ok"
        /\ DOMAIN cfg' = DOMAIN cfg
        /\ \A j \in DOMAIN cfg \ {i} :
            /\ cfg'[j] = cfg[j]
            /\ cfg[j].memory_pool # None =>
                /\ pools'[cfg[j].memory_pool].kind = pools[cfg[j].memory_pool].kind
                /\ pools'[cfg[j].memory_pool].pool_size
                        = pools[cfg[j].memory_pool].pool_size
                /\ pools'[cfg[j].memory_pool].strong > 0
    /\ last'.op \in DmFamily =>
        /\ cfg'[i].memory_pool = cfg[i].memory_pool
        /\ pools' = pools
    /\ last'.op \in PoolFamily =>
        cfg'[i].disk_manager = cfg[i].disk_manager

\* C8: every mutator succeeds and replaces one field: the disk-manager
\* mutators leave the pool override (and every pool) as it was, the pool
\* mutators leave the disk-manager mode as it was, and every other config
\* held keeps its fields and the pool it refers to.
C8_OneFieldReplaced == [][C8_Step]_vars

\* with_disk_manager has just changed the mode of a config that shares its
\* pool override with another config
C8_Witness ==
    /\ last.op = "with_disk_manager"
    /\ cfg[last.cfg].memory_pool # None
    /\ \E j \in DOMAIN cfg \ {last.cfg} :
        /\ cfg[j].memory_pool = cfg[last.cfg].memory_pool
        /\ cfg[j].disk_manager # cfg[last.cfg].disk_manager

(* ------------------------------ C5 ------------------------------------- *)
\* handles h and k were obtained from the same constructed RuntimeEnv
SameEnv(b, h, k) == b[h].build = b[k].build

C5_Step ==
    /\ \A h, k \in DOMAIN env' :
        SameEnv(built', h, k) =>
            /\ env'[h].memory_pool = env'[k].memory_pool
            /\ env'[h].disk_manager = env'[k].disk_manager
    /\ (last'.op = "try_grow" /\ last'.res = "Ok") =>
        \A k \in DOMAIN env :
            SameEnv(built, last'.env, k) =>
                pools'[env'[k].memory_pool].used
                    = pools[env[k].memory_pool].used + last'.n

\* C5: all handles cloned from one RuntimeEnv refer to the same memory pool
\* and the same disk manager, and the bytes granted by a try_grow through one
\* of them are added to the reservation every one of them sees.
C5_ClonesShare == [][C5_Step]_vars

\* an allocation has just been granted through one of two handles of the
\* same RuntimeEnv, and the other handle sees it
C5_Witness ==
    /\ last.op = "try_grow"
    /\ last.res = "Ok"
    /\ \E k \in DOMAIN env \ {last.env} :
        /\ SameEnv(built, last.env, k)
        /\ pools[env[k].memory_pool].used = last.n

(* ------------------------------ C7 ------------------------------------- *)
\* the mode "restricted to exactly the one-element directory list [P]"
RestrictedTo(path) == [kind |-> "NewSpecified", dirs |-> <<path>>]

C7_Step ==
    /\ last'.op = "with_temp_file_path" =>
        LET i == last'.cfg IN
        cfg'[i] = [cfg[i] EXCEPT
                      !.disk_manager = RestrictedTo(cfgLog'[i].dm.path)]
    /\ \A h \in DOMAIN env' :
        built'[h].log.dm.op = "with_temp_file_path" =>
            /\ dms'[env'[h].disk_manager].mode = RestrictedTo(built'[h].log.dm.path)
            /\ \A f \in files' :
                f.dm = env'[h].disk_manager => f.dir = built'[h].log.dm.path

\* C7: with_temp_file_path(P) changes a config as with_disk_manager(the mode
\* restricted to [P]) does, and an env built from such a config has a disk
\* manager of that mode, every temporary file of which lies in P.
C7_TempFilePath == [][C7_Step]_vars

\* an env built after with_temp_file_path has created a temporary file
C7_Witness ==
    \E h \in DOMAIN env :
        /\ built[h].log.dm.op = "with_temp_file_path"
        /\ \E f \in files :
            /\ f.dm = env[h].disk_manager
            /\ f.dir = built[h].log.dm.path

(* ------------------------------ C9 ------------------------------------- *)
\* the RuntimeEnv handles that hold disk manager d
EnvHolders(e, d) == {h \in DOMAIN e : e[h].disk_manager = d}

\* C9 as stated: a disk manager that was constructed is not torn down while
\* a handle of its RuntimeEnv is held, and is torn down (its files gone)
\* once every such handle has been released.
C9_TornDownWithLastEnvHandle ==
    /\ \A d \in DmIds : dms[d].live <=> EnvHolders(env, d) # {}
    /\ \A f \in files : EnvHolders(env, f.dm) # {}

C9_Step ==
    /\ \A d \in DmIds :
        /\ dms'[d].live <=> DmHolders(env', extDm', d) > 0
        /\ dms'[d].strong = DmHolders(env', extDm', d)
    /\ \A f \in files' : dms'[f.dm].live
    /\ \A f \in files :
        (DmHolders(env', extDm', f.dm) > 0 /\ f.dm \notin FreshDms(dms)) => f \in files'

\* C9 amended: a disk manager is torn down exactly when the last reference
\* to it is released, where the references are the RuntimeEnv handles and
\* the Arc<DiskManager> clones taken from the public disk_manager field:
\* while any of them is held the manager and its files stay, and once all
\* are released the manager is gone and has no files.
C9_TornDownWithLastReference == [][C9_Step]_vars

\* every RuntimeEnv handle has been released, and the disk manager still
\* lives, with a temporary file, through a reference taken from the field
C9_Witness ==
    /\ env = <<>>
    /\ \E d \in extDm :
        /\ dms[d].live
        /\ \E f \in files : f.dm = d

(* ------------------------------ C10 ------------------------------------ *)
C10_Inv ==
    \* a config, cloned or not, and an env built from it hold the pool that
    \* the last with_memory_pool / with_memory_limit installed
    /\ \A i \in DOMAIN cfg :
        cfgLog[i].pool # NoCall => cfg[i].memory_pool = cfgLog[i].pool.pool
    /\ \A h \in DOMAIN env :
        built[h].log.pool # NoCall => env[h].memory_pool = built[h].log.pool.pool
    \* the pool lives exactly while a config, an env or the caller holds it,
    \* and what all of them have allocated is within its limit
    /\ \A p \in PoolIds :
        LET holders == PoolHolders(cfg, env, ext, p) IN
        /\ pools[p].strong = holders
        /\ pools[p].kind # "free" <=> holders > 0
        /\ pools[p].kind = "Greedy" => pools[p].used <= pools[p].pool_size
    \* without an override every new() makes its own unbounded pool, and
    \* every new() makes its own disk manager
    /\ \A h, k \in DOMAIN env :
        ~SameEnv(built, h, k) =>
            /\ env[h].disk_manager # env[k].disk_manager
            /\ (built[h].log.pool = NoCall /\ built[k].log.pool = NoCall) =>
                /\ env[h].memory_pool # env[k].memory_pool
                /\ pools[env[h].memory_pool].kind = "Unbounded"
                /\ pools[env[k].memory_pool].kind = "Unbounded"

C10_Step ==
    \* a pool that stays held stays the pool it was
    /\ \A p \in PoolIds :
        (pools[p].strong > 0 /\ pools'[p].strong > 0) =>
            /\ pools'[p].kind = pools[p].kind
            /\ pools'[p].pool_size = pools[p].pool_size
    \* allocations through any env count against the one limit
    /\ last'.op = "try_grow" =>
        LET p == env[last'.env].memory_pool IN
        (last'.res = "Ok") <=>
            (pools[p].kind = "Greedy" => pools[p].used + last'.n <= pools[p].pool_size)

\* C10: configs cloned from a config with a pool override, and the envs
\* built from them, all hold the one pool the override installed, whose
\* limit bounds the sum of what all of them allocate and which lives exactly
\* while a config, an env or an external holder refers to it; envs built by
\* different new() calls from configs without an override have different
\* unbounded pools; envs built by different new() calls have different disk
\* managers.
C10_ClonedConfigs == []C10_Inv /\ [][C10_Step]_vars

\* two envs built by two new() calls share a greedy pool that only they
\* hold, it is full, and a request through one of them was just rejected
C10_Witness ==
    /\ last.op = "try_grow"
    /\ last.res = "Err"
    /\ \E k \in DOMAIN env \ {last.env} :
        /\ ~SameEnv(built, last.env, k)
        /\ env[k].memory_pool = env[last.env].memory_pool
        /\ env[k].memory_pool \notin ext
        /\ pools[env[k].memory_pool].kind = "Greedy"
        /\ pools[env[k].memory_pool].strong = 2
        /\ built[k].log.pool.op = "with_memory_limit"

====
